---------------------------- MODULE Spec2Model ----------------------------
(***************************************************************************)
(* Model of bfillings/hmmer.py: the hmmer_nhmmer application controller    *)
(* and the run_nhmmer function that configures it, runs the external       *)
(* nhmmer program and deduces the artifacts from its table of hits.        *)
(*                                                                         *)
(* Python values are kept in their str() form: None is the string "None",  *)
(* the E-value 1e-5 is "1e-05", the thread count n is ToString(n).         *)
(* Text read from files is a sequence of one-character strings.            *)
(*                                                                         *)
(* The parameter objects and the application call come from burrito; they  *)
(* are modelled by what run_nhmmer relies on: on/off/isOn of a parameter,  *)
(* a new instance starting from the class's _parameters, the command made  *)
(* of the parameters that are on followed by the input string, an          *)
(* ApplicationError with the captured standard error for a non-zero exit   *)
(* status, and one open file per result path that is written.  The nhmmer  *)
(* binary is taken to be installed and, when it ends with status 0, to     *)
(* have written the files it was asked for.  The quotes burrito puts       *)
(* around paths and its redirections of the output are left out of the     *)
(* command.                                                                *)
(***************************************************************************)
EXTENDS Integers, Sequences, FiniteSets, TLC

(* ------------------------------ bounds -------------------------------- *)
MaxThreads == 2      \* thread counts tried are -1 .. MaxThreads
MaxLineLen == 2      \* characters in one line of the table of hits
MaxLines == 2        \* lines of the table in the stand-alone artifact search
MaxChars == 4        \* characters of that table, all lines together

None == "None"

\* Python truthiness of None, '' and 0.0 (as used by "if evalue:" and
\* "if tblout_filepath:").
Truthy(v) == v \notin {None, "", "0.0"}

(* --------------------- hmmer_nhmmer class attributes ------------------- *)
_command == "nhmmer"

_suppress_stdout == FALSE

_suppress_stderr == FALSE

\* The keys of _parameters, in the order they are declared.
ParameterKeys == <<"-o", "--noali", "--tblout", "--acc", "-E", "--cpu">>

KeySet == {ParameterKeys[i] : i \in 1..Len(ParameterKeys)}

\* The keys declared as FlagParameter; the others are ValuedParameter.
IsFlag(k) == k \in {"--noali", "--acc"}

\* Value of every parameter as declared: a FlagParameter holds a boolean,
\* a ValuedParameter holds None (off) or its value.
_parameters ==
    [k \in KeySet |->
        CASE k = "-o"       -> None
          [] k = "--noali"  -> TRUE
          [] k = "--tblout" -> None
          [] k = "--acc"    -> TRUE
          [] k = "-E"       -> "1e-05"
          [] k = "--cpu"    -> "1"]

(* ------------------- parameter objects (burrito) ----------------------- *)
isOn(P, k) == IF IsFlag(k) THEN P[k] = TRUE ELSE P[k] # None

on(P, k, v) == [P EXCEPT ![k] = v]

off(P, k) == [P EXCEPT ![k] = IF IsFlag(k) THEN FALSE ELSE None]

\* str() of one parameter: '' when off, the flag alone for a FlagParameter,
\* flag, Delimiter ' ' and value for a ValuedParameter.
ParameterStr(P, k) ==
    IF ~isOn(P, k) THEN ""
    ELSE IF IsFlag(k) THEN k
    ELSE k \o " " \o P[k]

RECURSIVE JoinOn(_, _)
JoinOn(P, keys) ==
    IF keys = <<>> THEN <<>>
    ELSE (IF ParameterStr(P, Head(keys)) = "" THEN <<>>
          ELSE <<ParameterStr(P, Head(keys))>>) \o JoinOn(P, Tail(keys))

\* The command line as the sequence of its space-joined parts: the command,
\* every parameter that is on, then the input string.
BaseCommand(P) == <<_command>> \o JoinOn(P, ParameterKeys)

Command(P, data) == BaseCommand(P) \o <<data>>

(* ------------------------- instantiation ------------------------------- *)
hmmer_nhmmer_shared(previous) == previous

\* nhmmer = hmmer_nhmmer(HALT_EXEC=HALT_EXEC): the Parameters of a new
\* instance are a copy of the class's _parameters; the Parameters of the
\* instance of the previous call (previous) are not used.
hmmer_nhmmer(previous) == _parameters

(* --------------------------- run_nhmmer -------------------------------- *)
ThreadsOK_nonnegative(threads) == threads >= 0

\* if threads > 0
ThreadsOK(threads) == threads > 0

TableMissing_empty(report_artifacts, tblout_filepath) ==
    report_artifacts /\ tblout_filepath = ""

\* if (report_artifacts and tblout_filepath is None)
TableMissing(report_artifacts, tblout_filepath) ==
    report_artifacts /\ tblout_filepath = None

InputData_swapped(fasta_filepath, profile_hmm) ==
    fasta_filepath \o " " \o profile_hmm

\* data = "%s %s" % (profile_hmm, fasta_filepath)
InputData(fasta_filepath, profile_hmm) ==
    profile_hmm \o " " \o fasta_filepath

\* "Set parameters", up to the test of the thread count.
SetFlags(P, a) ==
    LET p1 == IF ~a.noali THEN off(P, "--noali") ELSE P
        p2 == IF ~a.acc THEN off(p1, "--acc") ELSE p1
    IN  IF Truthy(a.evalue) THEN on(p2, "-E", a.evalue) ELSE p2

\* From a passed thread count to the test of the table of hits.
SetThreadsAndTable(P, a) ==
    LET p4 == on(P, "--cpu", ToString(a.threads))
    IN  IF Truthy(a.tblout_filepath)
        THEN on(p4, "--tblout", a.tblout_filepath) ELSE p4

(* ------------------------ the table of hits ---------------------------- *)
Chars == {"#", " ", "A"}

Whitespace == {" "}

\* The lines of the table (without their line terminator).
Lines == UNION {[1..m -> Chars] : m \in 0..MaxLineLen}

RECURSIVE TotalChars(_)
TotalChars(table) ==
    IF table = <<>> THEN 0 ELSE Len(Head(table)) + TotalChars(Tail(table))

\* The tables of at most MaxLines lines and MaxChars characters.
Tables ==
    {table \in UNION {[1..m -> Lines] : m \in 0..MaxLines} :
        TotalChars(table) <= MaxChars}

\* The tables one run of nhmmer is given to read: at most one line (the
\* longer ones are covered by SpecArtifacts).
RunTables == {<<>>} \cup {<<line>> : line \in Lines}

\* The labels a FASTA file may hold, and the files: parse_fasta yields the
\* label of every record, all_seqs collects them in a set.
LabelUniverse == {<<"A">>, <<"A", "A">>, <<"#">>}

\* line.startswith('#')
startswith_hash(line) == Len(line) > 0 /\ line[1] = "#"

RECURSIVE lstrip(_)
lstrip(s) ==
    IF s # <<>> /\ Head(s) \in Whitespace THEN lstrip(Tail(s)) ELSE s

RECURSIVE rstrip(_)
rstrip(s) ==
    IF s # <<>> /\ s[Len(s)] \in Whitespace
    THEN rstrip(SubSeq(s, 1, Len(s) - 1)) ELSE s

\* line.strip()
strip(s) == rstrip(lstrip(s))

\* The first field of s and what follows it, s starting with no whitespace.
RECURSIVE TakeField(_, _)
TakeField(field, s) ==
    IF s = <<>> \/ Head(s) \in Whitespace THEN <<field, s>>
    ELSE TakeField(Append(field, Head(s)), Tail(s))

\* s.split(): the fields of s between runs of whitespace.
RECURSIVE split(_)
split(s) ==
    LET t == lstrip(s)
    IN  IF t = <<>> THEN <<>>
        ELSE LET fr == TakeField(<<>>, t)
             IN  <<fr[1]>> \o split(fr[2])

HitLine_all(line) == TRUE

\* if line.startswith('#'): continue
HitLine(line) == ~startswith_hash(line)

\* The loop over app_result['TableOutput']: the set of hits after the
\* first n lines, or the error raised by line[0] on a line without fields.
RECURSIVE Hits(_, _)
Hits(table, n) ==
    IF n = 0 THEN [error |-> None, hits |-> {}]
    ELSE LET before == Hits(table, n - 1)
             fields == split(strip(table[n]))
         IN  IF before.error # None THEN before
             ELSE IF ~HitLine(table[n]) THEN before
             ELSE IF fields = <<>> THEN [error |-> "IndexError", hits |-> before.hits]
             ELSE [error |-> None, hits |-> before.hits \cup {fields[1]}]

Difference_reversed(all_seqs_, hits) == hits \ all_seqs_

\* artifacts = list(all_seqs - hits), as a set
Difference(all_seqs_, hits) == all_seqs_ \ hits

(* ------------------------------ state ---------------------------------- *)
VARIABLES
    pc,           \* "start", "running" (nhmmer spawned), "returned", "raised",
                  \* "idle" (between two calls)
    args,         \* the arguments of the current call of run_nhmmer
    Parameters,   \* nhmmer.Parameters of the latest instance
    command,      \* the parts of the command line handed to the system
    spawned,      \* the current call has started the external program
    exit_status,  \* exit status of the external program, -1 before it ends
    stderr,       \* what the external program wrote to its standard error
    error,        \* the exception the current call raised
    result_paths, \* _get_result_paths(data)
    app_result,   \* the open file (its path) or None of every result path
    tbl_lines,    \* the lines read from app_result['TableOutput']
    all_seqs,     \* the labels read from fasta_filepath
    artifacts,    \* the artifacts returned
    earlier,      \* the Parameters of the previous instance against the new
                  \* ones: "none" (first call), "dropped" (one was on that is
                  \* now off), "same", "different"
    params        \* option set handed to the validating builder

vars == <<pc, args, Parameters, command, spawned, exit_status, stderr, error,
          result_paths, app_result, tbl_lines, all_seqs, artifacts, earlier,
          params>>

ArgSpace ==
    [fasta_filepath : {"seqs.fasta"},
     profile_hmm : {"model.hmm"},
     output_filepath : {"out.txt"},
     tblout_filepath : {None, "", "hits.tbl"},
     report_artifacts : BOOLEAN,
     noali : BOOLEAN,
     acc : BOOLEAN,
     evalue : {None, "0.0", "0.001"},
     threads : (0 - 1)..MaxThreads,
     HALT_EXEC : BOOLEAN]

\* The defaults of run_nhmmer's signature.
DefaultArgs ==
    [fasta_filepath |-> "seqs.fasta", profile_hmm |-> "model.hmm",
     output_filepath |-> "out.txt", tblout_filepath |-> None,
     report_artifacts |-> FALSE, noali |-> TRUE, acc |-> TRUE,
     evalue |-> None, threads |-> 1, HALT_EXEC |-> FALSE]

NoError == [type |-> None, text |-> "", keys |-> {}]

ResultPath(Path, IsWritten) == [Path |-> Path, IsWritten |-> IsWritten]

NoPaths ==
    [AlignmentsOutput |-> ResultPath(None, FALSE),
     TableOutput |-> ResultPath(None, FALSE)]

NoResult == [AlignmentsOutput |-> None, TableOutput |-> None]

StderrTexts == {"Error: File format problem", "Error: Failed to open"}

ThreadsMessage == "Number of threads must be a positive integer."

TableMessage ==
    "A table of parseable table of hits is required as output in order to deduce the artifacts."

Init ==
    /\ pc = "start"
    /\ args = DefaultArgs
    /\ Parameters = _parameters
    /\ command = <<>>
    /\ spawned = FALSE
    /\ exit_status = 0 - 1
    /\ stderr = ""
    /\ error = NoError
    /\ result_paths = NoPaths
    /\ app_result = NoResult
    /\ tbl_lines = <<>>
    /\ all_seqs = {}
    /\ artifacts = {}
    /\ earlier = "none"
    /\ params = {}

(* ------------------- hmmer_nhmmer._get_result_paths -------------------- *)
TableWritten_always(P) == TRUE

\* IsWritten=self.Parameters['--tblout'].isOn()
TableWritten(P) == isOn(P, "--tblout")

_get_result_paths(P) ==
    [AlignmentsOutput |-> ResultPath(P["-o"], isOn(P, "-o")),
     TableOutput |-> ResultPath(P["--tblout"], TableWritten(P))]

\* The result of the application call: every result path that is written
\* is opened, the others are None.
OpenResults(paths) ==
    [key \in DOMAIN paths |->
        IF paths[key].IsWritten THEN paths[key].Path ELSE None]

_accept_exit_status_any(status) == TRUE

\* The exit statuses the application call accepts without raising.
_accept_exit_status(status) == status = 0

(* ------------------------ run_nhmmer, first part ----------------------- *)
\* The call up to the point where the external program has been started
\* (or an exception has left the function).
Raise(type, text) ==
    /\ pc' = "raised"
    /\ error' = [type |-> type, text |-> text, keys |-> {}]

RunNhmmer(a) ==
    /\ pc \in {"start", "idle"}
    /\ LET p0 == hmmer_nhmmer(Parameters)
           p3 == SetFlags(p0, a)
           p5 == SetThreadsAndTable(p3, a)
           p6 == on(p5, "-o", a.output_filepath)
           data == InputData(a.fasta_filepath, a.profile_hmm)
           final == IF ~ThreadsOK(a.threads) THEN p3
                    ELSE IF TableMissing(a.report_artifacts, a.tblout_filepath)
                    THEN p5 ELSE p6
       IN  /\ args' = a
           /\ Parameters' = final
           /\ earlier' = IF pc = "start" THEN "none"
                         ELSE IF \E k \in KeySet : isOn(Parameters, k) /\ ~isOn(final, k)
                         THEN "dropped"
                         ELSE IF Parameters = final THEN "same"
                         ELSE "different"
           /\ IF ~ThreadsOK(a.threads)
              THEN Raise("ValueError", ThreadsMessage)
                   /\ command' = <<>> /\ spawned' = FALSE
              ELSE IF TableMissing(a.report_artifacts, a.tblout_filepath)
              THEN Raise("ValueError", TableMessage)
                   /\ command' = <<>> /\ spawned' = FALSE
              ELSE IF a.HALT_EXEC
              THEN Raise("AssertionError", "Halted exec with command")
                   /\ command' = Command(p6, data) /\ spawned' = FALSE
              ELSE /\ pc' = "running"
                   /\ error' = NoError
                   /\ command' = Command(p6, data)
                   /\ spawned' = TRUE
    /\ UNCHANGED <<exit_status, stderr, result_paths, app_result, tbl_lines,
                   all_seqs, artifacts, params>>

(* ------------------------ run_nhmmer, second part ---------------------- *)
\* Lines 173-194 on the opened results: the artifacts, or the exception.
FindArtifacts(results, report_artifacts, table, labels) ==
    IF ~report_artifacts
    THEN [error |-> NoError, read |-> <<>>, all_seqs |-> {}, artifacts |-> {}]
    ELSE IF results.TableOutput = None
    THEN [error |-> [type |-> "TypeError", text |-> "'NoneType' object is not iterable",
                     keys |-> {}],
          read |-> <<>>, all_seqs |-> {}, artifacts |-> {}]
    ELSE LET h == Hits(table, Len(table))
         IN  IF h.error # None
             THEN [error |-> [type |-> h.error, text |-> "list index out of range",
                             keys |-> {}],
                   read |-> table, all_seqs |-> {}, artifacts |-> {}]
             ELSE [error |-> NoError, read |-> table, all_seqs |-> labels,
                   artifacts |-> Difference(labels, h.hits)]

Finish(f) ==
    /\ pc' = IF f.error = NoError THEN "returned" ELSE "raised"
    /\ error' = f.error
    /\ tbl_lines' = f.read
    /\ all_seqs' = f.all_seqs
    /\ artifacts' = f.artifacts

\* The external program ends with a status and its standard error; the
\* application call raises or opens the results, and run_nhmmer goes on to
\* the artifacts.  The files are read as they are when they are opened.
NhmmerExit(status, err, table, labels) ==
    /\ pc = "running"
    /\ exit_status' = status
    /\ stderr' = err
    /\ IF ~_accept_exit_status(status)
       THEN /\ Raise("ApplicationError", IF _suppress_stderr THEN None ELSE err)
            /\ UNCHANGED <<result_paths, app_result, tbl_lines, all_seqs, artifacts>>
       ELSE /\ result_paths' = _get_result_paths(Parameters)
            /\ app_result' = OpenResults(result_paths')
            /\ Finish(FindArtifacts(app_result', args.report_artifacts, table, labels))
    /\ UNCHANGED <<args, Parameters, command, spawned, earlier, params>>

\* What the environment can give to one run: a failure with a diagnostic,
\* or a success; the table and the FASTA labels matter only when read.
Exit ==
    \/ \E err \in StderrTexts : NhmmerExit(1, err, <<>>, {})
    \/ /\ ~(args.report_artifacts /\ isOn(Parameters, "--tblout"))
       /\ NhmmerExit(0, "", <<>>, {})
    \/ /\ pc = "running" /\ args.report_artifacts /\ isOn(Parameters, "--tblout")
       /\ \E table \in RunTables, labels \in SUBSET LabelUniverse :
            NhmmerExit(0, "", table, labels)

\* The call is over (line 194, or the exception has reached the caller):
\* its locals are gone, the Parameters of its instance are what is left.
Done ==
    /\ pc \in {"returned", "raised"}
    /\ pc' = "idle"
    /\ args' = DefaultArgs
    /\ command' = <<>>
    /\ spawned' = FALSE
    /\ exit_status' = 0 - 1
    /\ stderr' = ""
    /\ error' = NoError
    /\ result_paths' = NoPaths
    /\ app_result' = NoResult
    /\ tbl_lines' = <<>>
    /\ all_seqs' = {}
    /\ artifacts' = {}
    /\ earlier' = "none"
    /\ UNCHANGED <<Parameters, params>>

Call == pc \in {"start", "idle"} /\ \E a \in ArgSpace : RunNhmmer(a)

Next == Call \/ Exit \/ Done

Spec == Init /\ [][Next]_vars

(* --------------- the artifact search on its own (lines 173-194) -------- *)
\* nhmmer has ended with status 0, artifacts are asked for and the table
\* was written: the search runs on every table and every set of labels.
ArtifactArgs ==
    [DefaultArgs EXCEPT !.tblout_filepath = "hits.tbl", !.report_artifacts = TRUE]

SearchArtifacts(table, labels) ==
    /\ pc = "start"
    /\ args' = ArtifactArgs
    /\ Parameters' = on(SetThreadsAndTable(SetFlags(hmmer_nhmmer(Parameters), args'), args'),
                        "-o", args'.output_filepath)
    /\ command' = Command(Parameters', InputData(args'.fasta_filepath, args'.profile_hmm))
    /\ spawned' = TRUE
    /\ exit_status' = 0
    /\ result_paths' = _get_result_paths(Parameters')
    /\ app_result' = OpenResults(result_paths')
    /\ Finish(FindArtifacts(app_result', args'.report_artifacts, table, labels))
    /\ UNCHANGED <<stderr, earlier, params>>

NextArtifacts ==
    /\ pc = "start"
    /\ \E table \in Tables, labels \in SUBSET LabelUniverse :
            SearchArtifacts(table, labels)

SpecArtifacts == Init /\ [][NextArtifacts]_vars

(* ---------------- the validating command builder ----------------------- *)
\* The keys a caller may put in an option set: the recognized ones and two
\* that are not.
OptionKeys == KeySet \cup {"--bogus", "-x"}

\* The value a caller gives to a recognized option.
OptionValue(k) ==
    CASE k = "-o"       -> "out.txt"
      [] k = "--noali"  -> TRUE
      [] k = "--tblout" -> "hits.tbl"
      [] k = "--acc"    -> TRUE
      [] k = "-E"       -> "0.001"
      [] k = "--cpu"    -> "2"

Unsupported_none(options) == {}

\* The keys of an option set that are not recognized.
Unsupported(options) == options \ KeySet

\* Every recognized option is reset to off, then the caller's value is applied.
ResetAndApply(P, options) ==
    [k \in KeySet |-> IF k \in options THEN OptionValue(k) ELSE off(P, k)[k]]

BuildCommand(options) ==
    /\ pc \in {"start", "built", "raised"}
    /\ params' = options
    /\ IF Unsupported(options) # {}
       THEN /\ pc' = "raised"
            /\ error' = [type |-> "ValidationError",
                         text |-> "Unsupported parameter(s)",
                         keys |-> Unsupported(options)]
            /\ command' = <<>>
            /\ UNCHANGED Parameters
       ELSE /\ pc' = "built"
            /\ error' = NoError
            /\ Parameters' = ResetAndApply(Parameters, options)
            /\ command' = Command(Parameters', InputData("seqs.fasta", "model.hmm"))
    /\ UNCHANGED <<args, spawned, exit_status, stderr, result_paths, app_result,
                   tbl_lines, all_seqs, artifacts, earlier>>

NextBuilder == \E options \in SUBSET OptionKeys : BuildCommand(options)

SpecBuilder == Init /\ [][NextBuilder]_vars

(* ------------------------------ claims --------------------------------- *)
InCall == pc \in {"running", "returned", "raised"}

\* C1: a call of run_nhmmer with threads <= 0 fails with the ValueError on
\* the thread count, whatever the other arguments are, and the external
\* program is never started for it.
C1_NonPositiveThreadsRejected ==
    (InCall /\ args.threads <= 0) =>
        /\ pc = "raised"
        /\ error.type = "ValueError"
        /\ error.text = ThreadsMessage
        /\ ~spawned
        /\ command = <<>>
        /\ exit_status = 0 - 1

C1_Witness ==
    /\ pc = "raised"
    /\ args.threads = 0
    /\ args.report_artifacts
    /\ args.tblout_filepath = None
    /\ ~args.noali
    /\ args.evalue = "0.001"
    /\ error.type = "ValueError"

IsFirstField(line, f) ==
    \E i \in 1..Len(line) : \E j \in i..Len(line) :
        /\ \A k \in 1..(i - 1) : line[k] \in Whitespace
        /\ \A k \in i..j : line[k] \notin Whitespace
        /\ j = Len(line) \/ line[j + 1] \in Whitespace
        /\ f = SubSeq(line, i, j)

C4_UnsupportedKeysRejected ==
    (pc \in {"built", "raised"} /\ \E k \in params : k \notin KeySet) =>
        /\ pc = "raised"
        /\ error.type = "ValidationError"
        /\ error.keys = {k \in params : k \notin KeySet}
        /\ command = <<>>
        /\ ~spawned

C4_Witness ==
    /\ pc = "raised"
    /\ params = {"-o", "--bogus", "--cpu"}
    /\ error.keys = {"--bogus"}

\* The Parameters that the arguments of one call ask for.
ParametersFor(a) ==
    [k \in KeySet |->
        CASE k = "-o"       -> a.output_filepath
          [] k = "--noali"  -> a.noali
          [] k = "--tblout" -> IF a.tblout_filepath \in {None, ""} THEN None
                               ELSE a.tblout_filepath
          [] k = "--acc"    -> a.acc
          [] k = "-E"       -> IF a.evalue \in {None, "0.0"} THEN "1e-05"
                               ELSE a.evalue
          [] k = "--cpu"    -> ToString(a.threads)]

\* C5: the flags and values a run uses are those its own arguments ask
\* for, whatever the earlier calls left behind.
C5_NoCarryOver ==
    (pc = "running") =>
        /\ Parameters = ParametersFor(args)
        /\ command = Command(ParametersFor(args),
                             InputData(args.fasta_filepath, args.profile_hmm))

C5_Witness ==
    /\ pc = "running"
    /\ earlier = "dropped"
    /\ ~isOn(Parameters, "--tblout")
    /\ isOn(Parameters, "--noali")
    /\ Parameters["-E"] = "1e-05"

C7_ResultsFollowFlags ==
    (pc = "returned") =>
        /\ DOMAIN app_result = {"AlignmentsOutput", "TableOutput"}
        /\ result_paths.AlignmentsOutput = ResultPath(args.output_filepath, TRUE)
        /\ app_result.AlignmentsOutput = args.output_filepath
        /\ result_paths.TableOutput.IsWritten <=> Truthy(args.tblout_filepath)
        /\ result_paths.TableOutput.IsWritten =>
               /\ result_paths.TableOutput.Path = args.tblout_filepath
               /\ app_result.TableOutput = args.tblout_filepath
        /\ ~result_paths.TableOutput.IsWritten => app_result.TableOutput = None
        /\ result_paths.AlignmentsOutput.IsWritten <=> isOn(Parameters, "-o")
        /\ result_paths.TableOutput.IsWritten <=> isOn(Parameters, "--tblout")

C7_Witness ==
    /\ pc = "returned"
    /\ ~args.report_artifacts
    /\ app_result.TableOutput = "hits.tbl"
    /\ app_result.AlignmentsOutput = "out.txt"

\* C8: the last part of every command is "<profile_hmm> <fasta_filepath>",
\* after the command name and the flags, whichever flags are on.
C8_PositionalsLast ==
    (command # <<>>) =>
        /\ command[Len(command)] = args.profile_hmm \o " " \o args.fasta_filepath
        /\ command[1] = "nhmmer"
        /\ \A i \in 2..(Len(command) - 1) :
               \E k \in KeySet :
                   /\ isOn(Parameters, k)
                   /\ command[i] = IF IsFlag(k) THEN k ELSE k \o " " \o Parameters[k]

C8_Witness ==
    /\ pc = "running"
    /\ Len(command) = 8
    /\ command[8] = "model.hmm seqs.fasta"

\* C9: as documented, noali false suppresses the alignments (--noali on)
\* and acc true gives --acc.
C9_DocumentedToggles ==
    (pc = "running") =>
        /\ ~args.noali => isOn(Parameters, "--noali")
        /\ args.acc => isOn(Parameters, "--acc")

\* C10: a run that got past validation with report_artifacts has --tblout
\* on, and its TableOutput is written once nhmmer has succeeded.
C10_TableAvailable ==
    (spawned /\ args.report_artifacts) =>
        /\ isOn(Parameters, "--tblout")
        /\ exit_status = 0 => result_paths.TableOutput.IsWritten

=============================================================================
